---------------------------- MODULE Spec2Model ----------------------------
(***************************************************************************)
(* A model of newNoise: the artist store (database.py), the three release  *)
(* date predicates and the playlist update cycle (newNoise.py).            *)
(*                                                                         *)
(* A datetime is an integer number of ticks: ordinal day * TicksPerDay +   *)
(* the tick of the day.  A release date is the string the catalogue gives, *)
(* modelled as a sequence of one-character strings.                        *)
(***************************************************************************)
EXTENDS Integers, Sequences, FiniteSets, TLC

(***************************************************************************)
(* Bounds of the model.                                                    *)
(***************************************************************************)
\* resolution of the clock: ticks in one day (tick 0 is midnight)
TicksPerDay == 2
\* how many ticks the clock may advance in one behaviour of the pipeline
MaxClockSteps == 2
\* days of "now" the date predicates are probed on, from each ProbeStarts day
ProbeDays == 14
\* update cycles in one behaviour
MaxCycles == 2
\* tracks of each album of the large catalogue
BigAlbumSize == 40

(***************************************************************************)
(* Program constants.                                                      *)
(***************************************************************************)
\* config.ARCHIVE_DAYS (config.py is not part of the sources; the value is
\* the one the specification gives)
ARCHIVE_DAYS == 30
\* the literal 50 of range(0, len(...), 50) and [i:i + 50]
BATCH == 50
\* timedelta(days=7) of _is_within_archive_period
WEEK_DAYS == 7
\* timedelta(days=6) of is_track_from_current_week
WEEK_SPAN == 6

Min2(a, b) == IF a <= b THEN a ELSE b

(***************************************************************************)
(* datetime: strptime(s, '%Y-%m-%d'), toordinal, weekday, timedelta.       *)
(***************************************************************************)
DigitChars == <<"0", "1", "2", "3", "4", "5", "6", "7", "8", "9">>

IsDigit(c) == \E i \in 1..10 : DigitChars[i] = c

DigitVal(c) == (CHOOSE i \in 1..10 : DigitChars[i] = c) - 1

\* the positions of the '-' separators of s
Dashes(s) == {i \in 1..Len(s) : s[i] = "-"}

AllDigits(s) == \A i \in 1..Len(s) : IsDigit(s[i])

RECURSIVE NumVal(_)
NumVal(s) == IF s = <<>> THEN 0
             ELSE 10 * NumVal(SubSeq(s, 1, Len(s) - 1)) + DigitVal(s[Len(s)])

IsLeap(y) == (y % 4 = 0) /\ ((y % 100 # 0) \/ (y % 400 = 0))

DaysInMonth(y, m) ==
    IF m = 2 THEN (IF IsLeap(y) THEN 29 ELSE 28)
    ELSE IF m \in {4, 6, 9, 11} THEN 30 ELSE 31

RECURSIVE DaysBeforeMonth(_, _)
DaysBeforeMonth(y, m) ==
    IF m = 1 THEN 0 ELSE DaysBeforeMonth(y, m - 1) + DaysInMonth(y, m - 1)

\* date(y, m, d).toordinal(): 0001-01-01 is day 1
ToOrdinal(y, m, d) ==
    LET p == y - 1
    IN  p * 365 + (p \div 4) - (p \div 100) + (p \div 400)
        + DaysBeforeMonth(y, m) + d

\* datetime.strptime(s, '%Y-%m-%d'): %Y is four digits, %m is 1..12 and %d
\* is 1..31 in one or two digits, the whole string must match, and the day
\* must exist in the month.  ok = FALSE stands for ValueError.
Strptime(s) ==
    LET ds == Dashes(s)
        bad == [ok |-> FALSE, date |-> 0]
    IN  IF Cardinality(ds) # 2 THEN bad
        ELSE LET d1 == CHOOSE i \in ds : \A j \in ds : i <= j
                 d2 == CHOOSE i \in ds : \A j \in ds : j <= i
                 ys == SubSeq(s, 1, d1 - 1)
                 ms == SubSeq(s, d1 + 1, d2 - 1)
                 dd == SubSeq(s, d2 + 1, Len(s))
             IN  IF ~(/\ Len(ys) = 4 /\ AllDigits(ys)
                      /\ Len(ms) \in {1, 2} /\ AllDigits(ms)
                      /\ Len(dd) \in {1, 2} /\ AllDigits(dd))
                 THEN bad
                 ELSE LET y == NumVal(ys)
                          m == NumVal(ms)
                          d == NumVal(dd)
                      IN  IF /\ y >= 1
                             /\ m \in 1..12
                             /\ d >= 1
                             /\ d <= DaysInMonth(y, m)
                          THEN [ok |-> TRUE,
                                date |-> ToOrdinal(y, m, d) * TicksPerDay]
                          ELSE bad

\* timedelta(days=n)
Days(n) == n * TicksPerDay

\* datetime.weekday(): Monday is 0
Weekday(t) == ((t \div TicksPerDay) + 6) % 7

\* the parsing common to the three predicates: a 7 character string gets
\* '-01' appended, any other string is parsed as it is
ParseRelease(release_date) ==
    IF Len(release_date) = 7
    THEN Strptime(release_date \o <<"-", "0", "1">>)
    ELSE Strptime(release_date)

\* if track_date > today: track_date = today
ClampToToday(track_date, today) ==
    IF track_date > today THEN today ELSE track_date

(***************************************************************************)
(* The three predicates; today is the value datetime.now() returns to the  *)
(* call.                                                                   *)
(***************************************************************************)
is_track_from_current_week(release_date, today) ==
    IF Len(release_date) = 4 THEN FALSE
    ELSE LET p == ParseRelease(release_date)
         IN  IF ~p.ok THEN FALSE
             ELSE LET track_date == ClampToToday(p.date, today)
                      start_of_week == today - Days(Weekday(today))
                      end_of_week == start_of_week + Days(WEEK_SPAN)
                  IN  start_of_week <= track_date /\ track_date <= end_of_week

WithinMonthNoClamp(release_date, today) ==
    IF Len(release_date) = 4 THEN FALSE
    ELSE LET p == ParseRelease(release_date)
         IN  IF ~p.ok THEN FALSE
             ELSE /\ p.date >= today - Days(ARCHIVE_DAYS)
                  /\ p.date <= today

_is_within_month(release_date, today) ==
    IF Len(release_date) = 4 THEN FALSE
    ELSE LET p == ParseRelease(release_date)
         IN  IF ~p.ok THEN FALSE
             ELSE LET track_date == ClampToToday(p.date, today)
                      cutoff == today - Days(ARCHIVE_DAYS)
                  IN  track_date >= cutoff

_is_within_archive_period(release_date, today) ==
    IF Len(release_date) = 4 THEN FALSE
    ELSE LET p == ParseRelease(release_date)
         IN  IF ~p.ok THEN FALSE
             ELSE LET track_date == ClampToToday(p.date, today)
                      week_ago == today - Days(WEEK_DAYS)
                      month_ago == today - Days(ARCHIVE_DAYS)
                  IN  month_ago <= track_date /\ track_date <= week_ago

(***************************************************************************)
(* Release date strings.                                                   *)
(***************************************************************************)
Fmt2(n) == <<DigitChars[(n \div 10) + 1], DigitChars[(n % 10) + 1]>>

Fmt4(n) == <<DigitChars[(n \div 1000) + 1], DigitChars[((n \div 100) % 10) + 1],
             DigitChars[((n \div 10) % 10) + 1], DigitChars[(n % 10) + 1]>>

FmtYear(y) == Fmt4(y)

FmtMonth(y, m) == Fmt4(y) \o <<"-">> \o Fmt2(m)

FmtDay(y, m, d) == Fmt4(y) \o <<"-">> \o Fmt2(m) \o <<"-">> \o Fmt2(d)


(***************************************************************************)
(* The catalogue of the remote service.                                    *)
(***************************************************************************)
ArtistIds == {"A1", "A2"}

Names == {"n1", "n2"}

Urls == {"u1"}

\* a track of an album listing: its id and its credited artists, the first
\* one being the primary artist
Track(id, artists) == [id |-> id, artists |-> artists]

Album(id, release_date, tracks) ==
    [id |-> id, release_date |-> release_date, tracks |-> tracks]

\* released on Monday 2024-07-01; track 2 credits A1 as a guest only
AlbumMonday ==
    Album("X1", FmtDay(2024, 7, 1),
          <<Track(1, <<"A1">>), Track(2, <<"A2", "A1">>)>>)

\* released on 2024-06-20; lists track 1 again
AlbumJune ==
    Album("X2", FmtDay(2024, 6, 20),
          <<Track(3, <<"A1", "A2">>), Track(1, <<"A1">>)>>)

\* year-month precision
AlbumMonthOnly == Album("X3", FmtMonth(2024, 7), <<Track(4, <<"A2">>)>>)

\* older than ARCHIVE_DAYS
AlbumOld == Album("X4", FmtDay(2024, 5, 20), <<Track(5, <<"A1">>)>>)

\* year precision
AlbumYearOnly == Album("X5", FmtYear(2024), <<Track(6, <<"A2">>)>>)

\* a date that does not exist
AlbumBadDate == Album("X6", FmtDay(2024, 2, 30), <<Track(7, <<"A1">>)>>)

\* an album of BigAlbumSize tracks of A1, ids from base + 1, released on a
\* day that is in the future of every clock value of the model
BigAlbum(id, base) ==
    Album(id, FmtDay(2024, 7, 5),
          [k \in 1..BigAlbumSize |-> Track(base + k, <<"A1">>)])

BigListing ==
    <<BigAlbum("B1", 100), BigAlbum("B2", 100 + BigAlbumSize),
      BigAlbum("B3", 100 + 2 * BigAlbumSize)>>

\* the album listings artist_albums answers with (at most limit=5 albums)
Listings ==
    { <<>>,
      <<AlbumMonday>>,
      <<AlbumMonday, AlbumJune>>,
      <<AlbumJune, AlbumOld, AlbumMonday>>,
      <<AlbumMonthOnly, AlbumYearOnly>>,
      <<AlbumBadDate, AlbumMonthOnly, AlbumMonday>> }

Catalogues ==
    [ArtistIds -> Listings]
    \cup {[a \in ArtistIds |-> IF a = "A1" THEN BigListing ELSE <<>>]}

\* the contents a destination playlist may have when the tracker starts
InitialPlaylists == {<<>>, <<1, 4>>}

(***************************************************************************)
(* The clock.  StartClock is Sunday 2024-06-30, last tick of the day.      *)
(***************************************************************************)
StartClock == ToOrdinal(2024, 6, 30) * TicksPerDay + (TicksPerDay - 1)

EndClock == StartClock + MaxClockSteps

\* the values datetime.now() may return once it has returned clk
NowValues(clk) == clk..EndClock

(***************************************************************************)
(* State.                                                                  *)
(***************************************************************************)
VARIABLES
    db,                 \* artists table: id -> [name, url]
    db_last,            \* the last add_artist/remove_artist call and its result
    catalog,            \* the remote catalogue: artist id -> album listing
    playlist,           \* items of the current playlist, in order
    archive_playlist,   \* items of the archive playlist, in order
    clock,              \* the last value datetime.now() returned
    pc,                 \* position of update_playlist
    current_track_ids,  \* line 94
    archive_track_ids,  \* line 95
    artist_ids,         \* line 98
    ai,                 \* index of the for loop of line 105
    albums,             \* line 106
    bi,                 \* index of the for loop of line 112
    tracks,             \* line 119
    ti,                 \* index of the for loop of line 120
    new_tracks,         \* line 101
    archive_tracks,     \* line 102
    i,                  \* the chunk offset of lines 141 and 147
    new_tracks_added,   \* line 137
    archive_tracks_added, \* line 138
    add_calls,          \* the playlist_add_items calls issued in this cycle
    now_first,          \* the first value of now read in this cycle, or -1
    now_last,           \* the last value of now read in this cycle, or -1
    cycles,             \* update cycles started
    probe_date,         \* the release date given to the date predicates
    probe               \* per predicate, <<>> or <<the value it returned>>

storeVars == <<db, db_last>>

remoteVars == <<catalog, playlist, archive_playlist>>

cycleVars ==
    <<pc, current_track_ids, archive_track_ids, artist_ids, ai, albums, bi,
      tracks, ti, new_tracks, archive_tracks, i, new_tracks_added,
      archive_tracks_added, add_calls, now_first, now_last, cycles>>

probeVars == <<probe_date, probe>>

vars == <<storeVars, remoteVars, clock, cycleVars, probeVars>>

(***************************************************************************)
(* ArtistDatabase (database.py).                                           *)
(***************************************************************************)
Row(name, url) == [name |-> name, url |-> url]

\* INSERT OR REPLACE in the place of INSERT OR IGNORE
InsertOrReplace(rows, artist_id, name, url) ==
    [rows   |-> [a \in DOMAIN rows \cup {artist_id} |->
                    IF a = artist_id THEN Row(name, url) ELSE rows[a]],
     rowcount |-> 1]

\* INSERT OR IGNORE INTO artists (id, name, url): the table it leaves and
\* cursor.rowcount
InsertOrIgnore(rows, artist_id, name, url) ==
    IF artist_id \in DOMAIN rows
    THEN [rows |-> rows, rowcount |-> 0]
    ELSE [rows |-> [a \in DOMAIN rows \cup {artist_id} |->
                       IF a = artist_id THEN Row(name, url) ELSE rows[a]],
          rowcount |-> 1]

\* DELETE FROM artists WHERE id = ?
DeleteWhereId(rows, artist_id) ==
    IF artist_id \in DOMAIN rows
    THEN [rows |-> [a \in DOMAIN rows \ {artist_id} |-> rows[a]],
          rowcount |-> 1]
    ELSE [rows |-> rows, rowcount |-> 0]

NoCall == [op |-> "none"]

Called(op, artist_id, before, failed, ret) ==
    [op |-> op, id |-> artist_id, before |-> before, failed |-> failed,
     ret |-> ret]

\* the tracker is between two update cycles, where the menu runs
AtMenu == pc \in {"idle", "done"}

\* add_artist: the statement runs and the connection commits
add_artist(artist_id, name, url) ==
    /\ AtMenu
    /\ LET r == InsertOrIgnore(db, artist_id, name, url)
       IN  /\ db' = r.rows
           /\ db_last' = Called("add", artist_id, db, FALSE, r.rowcount > 0)
    /\ UNCHANGED <<remoteVars, clock, cycleVars, probeVars>>

\* add_artist: sqlite3.Error is caught, nothing is committed
add_artist_error(artist_id, name, url) ==
    /\ AtMenu
    /\ db' = db
    /\ db_last' = Called("add", artist_id, db, TRUE, FALSE)
    /\ UNCHANGED <<remoteVars, clock, cycleVars, probeVars>>

remove_artist(artist_id) ==
    /\ AtMenu
    /\ LET r == DeleteWhereId(db, artist_id)
       IN  /\ db' = r.rows
           /\ db_last' = Called("remove", artist_id, db, FALSE, r.rowcount > 0)
    /\ UNCHANGED <<remoteVars, clock, cycleVars, probeVars>>

remove_artist_error(artist_id) ==
    /\ AtMenu
    /\ db' = db
    /\ db_last' = Called("remove", artist_id, db, TRUE, FALSE)
    /\ UNCHANGED <<remoteVars, clock, cycleVars, probeVars>>

\* the orders SELECT id FROM artists may list the ids of rows in (the query
\* has no ORDER BY)
RECURSIVE Orders(_)
Orders(S) ==
    IF S = {} THEN {<<>>}
    ELSE UNION {{<<a>> \o o : o \in Orders(S \ {a})} : a \in S}

(***************************************************************************)
(* update_playlist (newNoise.py), one action per remote call, per clock    *)
(* read and per loop exit.                                                 *)
(***************************************************************************)
Ids(seq) == {seq[k] : k \in DOMAIN seq}

\* a filter that accepts any credit, not the first one only
IsCredited(track, artist_id) ==
    \E k \in DOMAIN track.artists : track.artists[k] = artist_id

\* track['artists'][0]['id'] == artist_id
IsPrimary(track, artist_id) == track.artists[1] = artist_id

\* a check against the current playlist only
InCurrentOnly(track_id, cur, arch) == track_id \in cur

\* track_id in current_track_ids or track_id in archive_track_ids
AlreadyPresent(track_id, cur, arch) == track_id \in cur \/ track_id \in arch

\* a slice that loses the last id of a full chunk
ShortBatch(ts, k) == SubSeq(ts, k + 1, Min2(k + BATCH - 1, Len(ts)))

\* ts[k:k + 50]
Batch(ts, k) == SubSeq(ts, k + 1, Min2(k + BATCH, Len(ts)))

\* a loop that stops after the first chunk, as a cut to 50 ids would
MoreChunksCapped(ts, k) == k < Len(ts) /\ k < BATCH

\* whether range(0, len(ts), 50) has the offset k
MoreChunks(ts, k) == k < Len(ts)

AddCall(target, batch) == [playlist |-> target, items |-> batch]

\* datetime.now() returns now: the clock and the record of the values read
ReadNow(now) ==
    /\ now \in NowValues(clock)
    /\ clock' = now
    /\ now_first' = IF now_first = -1 THEN now ELSE now_first
    /\ now_last' = now

CanStart == AtMenu /\ cycles < MaxCycles

\* update_playlist is called (menu choice 1, or the scheduler's job): the
\* locals of a new call
StartCycle ==
    /\ CanStart
    /\ cycles' = cycles + 1
    /\ current_track_ids' = {}
    /\ archive_track_ids' = {}
    /\ artist_ids' = <<>>
    /\ albums' = <<>>
    /\ tracks' = <<>>
    /\ ai' = 1 /\ bi' = 1 /\ ti' = 1 /\ i' = 0
    /\ new_tracks' = <<>>
    /\ archive_tracks' = <<>>
    /\ new_tracks_added' = 0
    /\ archive_tracks_added' = 0
    /\ add_calls' = <<>>
    /\ now_first' = -1
    /\ now_last' = -1
    /\ pc' = "fetch_current"
    /\ UNCHANGED <<storeVars, remoteVars, clock, probeVars>>

\* line 91: playlist_tracks(self.playlist_id)
FetchCurrent ==
    /\ pc = "fetch_current"
    /\ current_track_ids' = Ids(playlist)
    /\ pc' = "fetch_archive"
    /\ UNCHANGED <<storeVars, remoteVars, clock, probeVars, archive_track_ids,
                   artist_ids, ai, albums, bi, tracks, ti, new_tracks,
                   archive_tracks, i, new_tracks_added, archive_tracks_added,
                   add_calls, now_first, now_last, cycles>>

\* line 92: playlist_tracks(self.archive_playlist_id)
FetchArchive ==
    /\ pc = "fetch_archive"
    /\ archive_track_ids' = Ids(archive_playlist)
    /\ pc' = "artist_ids"
    /\ UNCHANGED <<storeVars, remoteVars, clock, probeVars, current_track_ids,
                   artist_ids, ai, albums, bi, tracks, ti, new_tracks,
                   archive_tracks, i, new_tracks_added, archive_tracks_added,
                   add_calls, now_first, now_last, cycles>>

\* line 98: self.db.get_artist_ids()
GetArtistIds ==
    /\ pc = "artist_ids"
    /\ \E o \in Orders(DOMAIN db) : artist_ids' = o
    /\ ai' = 1
    /\ pc' = "artist"
    /\ UNCHANGED <<storeVars, remoteVars, clock, probeVars, current_track_ids,
                   archive_track_ids, albums, bi, tracks, ti, new_tracks,
                   archive_tracks, i, new_tracks_added, archive_tracks_added,
                   add_calls, now_first, now_last, cycles>>

\* get_artist_ids catches sqlite3.Error and returns []
GetArtistIdsError ==
    /\ pc = "artist_ids"
    /\ artist_ids' = <<>>
    /\ ai' = 1
    /\ pc' = "artist"
    /\ UNCHANGED <<storeVars, remoteVars, clock, probeVars, current_track_ids,
                   archive_track_ids, albums, bi, tracks, ti, new_tracks,
                   archive_tracks, i, new_tracks_added, archive_tracks_added,
                   add_calls, now_first, now_last, cycles>>

\* line 106: artist_albums(artist_id, ...)
ArtistAlbums ==
    /\ pc = "artist"
    /\ ai <= Len(artist_ids)
    /\ albums' = catalog[artist_ids[ai]]
    /\ bi' = 1
    /\ pc' = "album"
    /\ UNCHANGED <<storeVars, remoteVars, clock, probeVars, current_track_ids,
                   archive_track_ids, artist_ids, ai, tracks, ti, new_tracks,
                   archive_tracks, i, new_tracks_added, archive_tracks_added,
                   add_calls, now_first, now_last, cycles>>

\* the loop of line 105 ends; lines 137 and 138
ArtistsDone ==
    /\ pc = "artist"
    /\ ai > Len(artist_ids)
    /\ new_tracks_added' = 0
    /\ archive_tracks_added' = 0
    /\ i' = 0
    /\ pc' = "add_new"
    /\ UNCHANGED <<storeVars, remoteVars, clock, probeVars, current_track_ids,
                   archive_track_ids, artist_ids, ai, albums, bi, tracks, ti,
                   new_tracks, archive_tracks, add_calls, now_first, now_last,
                   cycles>>

\* lines 113 to 117: the gate on the album's release date
GateAlbum ==
    /\ pc = "album"
    /\ bi <= Len(albums)
    /\ \E now \in NowValues(clock) :
          /\ ReadNow(now)
          /\ IF _is_within_month(albums[bi].release_date, now)
             THEN pc' = "album_tracks" /\ bi' = bi
             ELSE pc' = "album" /\ bi' = bi + 1
    /\ UNCHANGED <<storeVars, remoteVars, probeVars, current_track_ids,
                   archive_track_ids, artist_ids, ai, albums, tracks, ti,
                   new_tracks, archive_tracks, i, new_tracks_added,
                   archive_tracks_added, add_calls, cycles>>

\* the loop of line 112 ends
AlbumsDone ==
    /\ pc = "album"
    /\ bi > Len(albums)
    /\ ai' = ai + 1
    /\ pc' = "artist"
    /\ UNCHANGED <<storeVars, remoteVars, clock, probeVars, current_track_ids,
                   archive_track_ids, artist_ids, albums, bi, tracks, ti,
                   new_tracks, archive_tracks, i, new_tracks_added,
                   archive_tracks_added, add_calls, now_first, now_last,
                   cycles>>

\* line 119: album_tracks(album['id'])
AlbumTracks ==
    /\ pc = "album_tracks"
    /\ tracks' = albums[bi].tracks
    /\ ti' = 1
    /\ pc' = "track"
    /\ UNCHANGED <<storeVars, remoteVars, clock, probeVars, current_track_ids,
                   archive_track_ids, artist_ids, ai, albums, bi, new_tracks,
                   archive_tracks, i, new_tracks_added, archive_tracks_added,
                   add_calls, now_first, now_last, cycles>>

\* lines 122 to 128: the two continue statements
TrackSkip ==
    /\ pc = "track"
    /\ ti <= Len(tracks)
    /\ \/ ~IsPrimary(tracks[ti], artist_ids[ai])
       \/ AlreadyPresent(tracks[ti].id, current_track_ids, archive_track_ids)
    /\ ti' = ti + 1
    /\ UNCHANGED <<storeVars, remoteVars, clock, probeVars, pc,
                   current_track_ids, archive_track_ids, artist_ids, ai,
                   albums, bi, tracks, new_tracks, archive_tracks, i,
                   new_tracks_added, archive_tracks_added, add_calls,
                   now_first, now_last, cycles>>

\* lines 131 and 132: is_track_from_current_week(release_date)
TrackWeek ==
    /\ pc = "track"
    /\ ti <= Len(tracks)
    /\ IsPrimary(tracks[ti], artist_ids[ai])
    /\ ~AlreadyPresent(tracks[ti].id, current_track_ids, archive_track_ids)
    /\ \E now \in NowValues(clock) :
          /\ ReadNow(now)
          /\ IF is_track_from_current_week(albums[bi].release_date, now)
             THEN /\ new_tracks' = Append(new_tracks, tracks[ti].id)
                  /\ ti' = ti + 1
                  /\ pc' = "track"
             ELSE /\ new_tracks' = new_tracks
                  /\ ti' = ti
                  /\ pc' = "period"
    /\ UNCHANGED <<storeVars, remoteVars, probeVars, current_track_ids,
                   archive_track_ids, artist_ids, ai, albums, bi, tracks,
                   archive_tracks, i, new_tracks_added, archive_tracks_added,
                   add_calls, cycles>>

\* lines 133 and 134: _is_within_archive_period(release_date)
TrackPeriod ==
    /\ pc = "period"
    /\ \E now \in NowValues(clock) :
          /\ ReadNow(now)
          /\ archive_tracks' =
                IF _is_within_archive_period(albums[bi].release_date, now)
                THEN Append(archive_tracks, tracks[ti].id)
                ELSE archive_tracks
    /\ ti' = ti + 1
    /\ pc' = "track"
    /\ UNCHANGED <<storeVars, remoteVars, probeVars, current_track_ids,
                   archive_track_ids, artist_ids, ai, albums, bi, tracks,
                   new_tracks, i, new_tracks_added, archive_tracks_added,
                   add_calls, cycles>>

\* the loop of line 120 ends
TracksDone ==
    /\ pc = "track"
    /\ ti > Len(tracks)
    /\ bi' = bi + 1
    /\ pc' = "album"
    /\ UNCHANGED <<storeVars, remoteVars, clock, probeVars, current_track_ids,
                   archive_track_ids, artist_ids, ai, albums, tracks, ti,
                   new_tracks, archive_tracks, i, new_tracks_added,
                   archive_tracks_added, add_calls, now_first, now_last,
                   cycles>>

\* lines 141 to 144: one chunk to the current playlist
AddNew ==
    /\ pc = "add_new"
    /\ MoreChunks(new_tracks, i)
    /\ LET batch == Batch(new_tracks, i)
       IN  /\ playlist' = playlist \o batch
           /\ add_calls' = Append(add_calls, AddCall("current", batch))
           /\ new_tracks_added' = new_tracks_added + Len(batch)
    /\ i' = i + BATCH
    /\ UNCHANGED <<storeVars, catalog, archive_playlist, clock, probeVars, pc,
                   current_track_ids, archive_track_ids, artist_ids, ai,
                   albums, bi, tracks, ti, new_tracks, archive_tracks,
                   archive_tracks_added, now_first, now_last, cycles>>

\* the loop of line 141 ends
NewDone ==
    /\ pc = "add_new"
    /\ ~MoreChunks(new_tracks, i)
    /\ i' = 0
    /\ pc' = "add_archive"
    /\ UNCHANGED <<storeVars, remoteVars, clock, probeVars, current_track_ids,
                   archive_track_ids, artist_ids, ai, albums, bi, tracks, ti,
                   new_tracks, archive_tracks, new_tracks_added,
                   archive_tracks_added, add_calls, now_first, now_last,
                   cycles>>

\* lines 147 to 150: one chunk to the archive playlist
AddArchive ==
    /\ pc = "add_archive"
    /\ MoreChunks(archive_tracks, i)
    /\ LET batch == Batch(archive_tracks, i)
       IN  /\ archive_playlist' = archive_playlist \o batch
           /\ add_calls' = Append(add_calls, AddCall("archive", batch))
           /\ archive_tracks_added' = archive_tracks_added + Len(batch)
    /\ i' = i + BATCH
    /\ UNCHANGED <<storeVars, catalog, playlist, clock, probeVars, pc,
                   current_track_ids, archive_track_ids, artist_ids, ai,
                   albums, bi, tracks, ti, new_tracks, archive_tracks,
                   new_tracks_added, now_first, now_last, cycles>>

\* the loop of line 147 ends; lines 152 and 153 report the two counts
ArchiveDone ==
    /\ pc = "add_archive"
    /\ ~MoreChunks(archive_tracks, i)
    /\ pc' = "done"
    /\ UNCHANGED <<storeVars, remoteVars, clock, probeVars, current_track_ids,
                   archive_track_ids, artist_ids, ai, albums, bi, tracks, ti,
                   new_tracks, archive_tracks, i, new_tracks_added,
                   archive_tracks_added, add_calls, now_first, now_last,
                   cycles>>

\* update_playlist is about to issue a call to the remote service
AtRemoteCall ==
    \/ pc = "fetch_current"
    \/ pc = "fetch_archive"
    \/ pc = "artist" /\ ai <= Len(artist_ids)
    \/ pc = "album_tracks"
    \/ pc = "add_new" /\ MoreChunks(new_tracks, i)
    \/ pc = "add_archive" /\ MoreChunks(archive_tracks, i)

\* an except clause around the loops that goes on to submit what was gathered
SubmitAfterError(at) ==
    IF at \in {"artist", "album_tracks"} THEN "add_new" ELSE "raised"

\* where update_playlist goes when the call it is at raises: it has no try
\* statement, so the exception leaves it
OnRemoteError(at) == "raised"

\* the call raises
RemoteError ==
    /\ AtRemoteCall
    /\ pc' = OnRemoteError(pc)
    /\ UNCHANGED <<storeVars, remoteVars, clock, probeVars, current_track_ids,
                   archive_track_ids, artist_ids, ai, albums, bi, tracks, ti,
                   new_tracks, archive_tracks, i, new_tracks_added,
                   archive_tracks_added, add_calls, now_first, now_last,
                   cycles>>

(***************************************************************************)
(* The tracker: the store, the remote service and update cycles.           *)
(***************************************************************************)
NoRows == [a \in {} |-> Row("n1", "u1")]

NoProbe == [week |-> <<>>, month |-> <<>>, period |-> <<>>]

CycleInit ==
    /\ pc = "idle"
    /\ current_track_ids = {}
    /\ archive_track_ids = {}
    /\ artist_ids = <<>>
    /\ albums = <<>>
    /\ tracks = <<>>
    /\ ai = 1 /\ bi = 1 /\ ti = 1 /\ i = 0
    /\ new_tracks = <<>>
    /\ archive_tracks = <<>>
    /\ new_tracks_added = 0
    /\ archive_tracks_added = 0
    /\ add_calls = <<>>
    /\ now_first = -1
    /\ now_last = -1
    /\ cycles = 0

\* the artists tables the tracker may find when it starts
Tables == UNION {[S -> {Row("n1", "u1")}] : S \in SUBSET ArtistIds}

\* the ids the store is called with
StoreIds == ArtistIds \cup {"A3"}

StoreNext ==
    \/ \E a \in StoreIds, n \in Names, u \in Urls : add_artist(a, n, u)
    \/ \E a \in StoreIds, n \in Names, u \in Urls : add_artist_error(a, n, u)
    \/ \E a \in StoreIds : remove_artist(a)
    \/ \E a \in StoreIds : remove_artist_error(a)

Init ==
    /\ db \in Tables
    /\ db_last = NoCall
    /\ catalog \in Catalogues
    /\ playlist \in InitialPlaylists
    /\ archive_playlist \in InitialPlaylists
    /\ clock = StartClock
    /\ CycleInit
    /\ probe_date = <<>>
    /\ probe = NoProbe

Next ==
    \/ StartCycle
    \/ FetchCurrent
    \/ FetchArchive
    \/ GetArtistIds
    \/ GetArtistIdsError
    \/ ArtistAlbums
    \/ ArtistsDone
    \/ GateAlbum
    \/ AlbumsDone
    \/ AlbumTracks
    \/ TrackSkip
    \/ TrackWeek
    \/ TrackPeriod
    \/ TracksDone
    \/ AddNew
    \/ NewDone
    \/ AddArchive
    \/ ArchiveDone
    \/ RemoteError

Spec == Init /\ [][Next]_vars

(***************************************************************************)
(* The artist store alone: any sequence of add and remove calls.           *)
(***************************************************************************)
FixedCatalogue == [a \in ArtistIds |-> <<>>]

StoreInit ==
    /\ db = NoRows
    /\ db_last = NoCall
    /\ catalog = FixedCatalogue
    /\ playlist = <<>>
    /\ archive_playlist = <<>>
    /\ clock = StartClock
    /\ CycleInit
    /\ probe_date = <<>>
    /\ probe = NoProbe

SpecStore == StoreInit /\ [][StoreNext]_vars

(***************************************************************************)
(* The date predicates alone: each is called once on a release date and a  *)
(* value of now drawn from bounded sets.                                   *)
(***************************************************************************)
\* Monday 2024-06-24 and Monday 2024-01-01
ProbeStarts == {ToOrdinal(2024, 6, 24), ToOrdinal(2024, 1, 1)}

ProbeNows ==
    {(d0 + k) * TicksPerDay + t :
        d0 \in ProbeStarts, k \in 0..(ProbeDays - 1), t \in 0..(TicksPerDay - 1)}

ProbeDates ==
    {FmtDay(2024, m, d) : m \in 5..7, d \in 1..31}
    \cup {FmtMonth(2024, m) : m \in 5..8}
    \cup {FmtYear(y) : y \in 2023..2025}
    \cup { <<"2", "0", "2", "4", "-", "7", "-", "1">>,
           <<"2", "4", "-", "7", "-", "0", "1">>,
           <<"2", "0", "2", "4", "-", "1", "3">>,
           <<"n", "o", "n", "e">>,
           <<>> }

ProbeWeek ==
    /\ probe.week = <<>>
    /\ probe' = [probe EXCEPT
                    !.week = <<is_track_from_current_week(probe_date, clock)>>]
    /\ UNCHANGED <<storeVars, remoteVars, clock, cycleVars, probe_date>>

ProbeMonth ==
    /\ probe.month = <<>>
    /\ probe' = [probe EXCEPT !.month = <<_is_within_month(probe_date, clock)>>]
    /\ UNCHANGED <<storeVars, remoteVars, clock, cycleVars, probe_date>>

ProbePeriod ==
    /\ probe.period = <<>>
    /\ probe' = [probe EXCEPT
                    !.period = <<_is_within_archive_period(probe_date, clock)>>]
    /\ UNCHANGED <<storeVars, remoteVars, clock, cycleVars, probe_date>>

DateInit ==
    /\ db = NoRows
    /\ db_last = NoCall
    /\ catalog = FixedCatalogue
    /\ playlist = <<>>
    /\ archive_playlist = <<>>
    /\ clock \in ProbeNows
    /\ CycleInit
    /\ probe_date \in ProbeDates
    /\ probe = NoProbe

DateNext == ProbeWeek \/ ProbeMonth \/ ProbePeriod

SpecDate == DateInit /\ [][DateNext]_vars

(***************************************************************************)
(* Properties of the date predicates (under SpecDate).                     *)
(***************************************************************************)
\* midnight of the day of the datetime t
Midnight(t) == (t \div TicksPerDay) * TicksPerDay

\* the precision of a release date string, by its length
YearOnly(d) == Len(d) = 4

YearMonth(d) == Len(d) = 7

\* normalize(d) of the specification: year -> Jan 1, year-month -> the 1st
\* of the month, a full date as it is
Normalize(d) ==
    IF YearOnly(d) THEN Strptime(d \o <<"-", "0", "1", "-", "0", "1">>)
    ELSE IF YearMonth(d) THEN Strptime(d \o <<"-", "0", "1">>)
    ELSE Strptime(d)

FullPrecision(d) == ~YearOnly(d) /\ ~YearMonth(d) /\ Normalize(d).ok

WeekCalled == probe.week # <<>>

MonthCalled == probe.month # <<>>

\* C5: for every release date of year or year-month precision and every
\* now, is_track_from_current_week returns False.
C5_CoarseDateNeverThisWeek ==
    (WeekCalled /\ (YearOnly(probe_date) \/ YearMonth(probe_date)))
        => probe.week = <<FALSE>>

\* C6: for every now, a full-precision release date equal to today's date
\* is classified THIS_WEEK, and so is a full-precision date in the future.
C6_TodayAndFutureThisWeek ==
    (/\ WeekCalled
     /\ FullPrecision(probe_date)
     /\ \/ Normalize(probe_date).date = Midnight(clock)
        \/ Normalize(probe_date).date > clock)
        => probe.week = <<TRUE>>

\* C7 as stated: _is_within_month is true exactly when
\* now - 30 days <= normalize(d) <= now.
C7_InsideWindowIffBetween ==
    MonthCalled =>
        probe.month = << /\ Normalize(probe_date).ok
                         /\ clock - Days(ARCHIVE_DAYS) <= Normalize(probe_date).date
                         /\ Normalize(probe_date).date <= clock >>

\* C7, amended: _is_within_month is true exactly when the release date has
\* year-month or full precision, is a valid date, and
\* now - 30 days <= min(normalize(d), now): a date in the future counts as
\* now, a year-only date is never inside, and the dates exactly 30 days
\* before now and exactly now are inside.
C7_InsideWindowIffClampedBetween ==
    MonthCalled =>
        probe.month = << /\ ~YearOnly(probe_date)
                         /\ Normalize(probe_date).ok
                         /\ clock - Days(ARCHIVE_DAYS)
                               <= Min2(Normalize(probe_date).date, clock) >>

\* the predicate has answered True for the date exactly 30 days before now
C7_Witness ==
    /\ probe.month = <<TRUE>>
    /\ Normalize(probe_date).ok
    /\ Normalize(probe_date).date = clock - Days(ARCHIVE_DAYS)

(***************************************************************************)
(* Properties of the artist store (under SpecStore).                       *)
(***************************************************************************)
\* C9: without storage failure, add returns true iff the id was absent
\* before the call and remove returns true iff it was present, and a call
\* that returns false leaves the contents of the store as they were.
C9_AddRemoveResults ==
    /\ (db_last.op = "add" /\ ~db_last.failed)
          => (db_last.ret <=> db_last.id \notin DOMAIN db_last.before)
    /\ (db_last.op = "remove" /\ ~db_last.failed)
          => (db_last.ret <=> db_last.id \in DOMAIN db_last.before)
    /\ (db_last.op # "none" /\ ~db_last.ret) => db = db_last.before

\* a second add of an id that is in the store, under another name, has
\* returned false
C9_Witness ==
    /\ db_last.op = "add"
    /\ ~db_last.failed
    /\ ~db_last.ret
    /\ db_last.id \in DOMAIN db
    /\ db[db_last.id].name = "n1"

(***************************************************************************)
(* Properties of the update cycle (under Spec).                            *)
(***************************************************************************)
RECURSIVE Concat(_)
Concat(seqs) == IF seqs = <<>> THEN <<>> ELSE Head(seqs) \o Concat(Tail(seqs))

\* the chunks submitted to one playlist in this cycle, in the order issued
CallsTo(target) ==
    LET sel == SelectSeq(add_calls, LAMBDA c : c.playlist = target)
    IN  [k \in DOMAIN sel |-> sel[k].items]

Submitted == Ids(Concat(CallsTo("current"))) \cup Ids(Concat(CallsTo("archive")))

\* the track ids of a listing: albums in listing order, tracks in album order
RECURSIVE ListingIds(_)
ListingIds(listing) ==
    IF listing = <<>> THEN <<>>
    ELSE [k \in DOMAIN Head(listing).tracks |-> Head(listing).tracks[k].id]
         \o ListingIds(Tail(listing))

\* every track id the cycle can meet, in encounter order
RECURSIVE Encounter(_)
Encounter(artists) ==
    IF artists = <<>> THEN <<>>
    ELSE ListingIds(catalog[Head(artists)]) \o Encounter(Tail(artists))

\* s is t with some elements left out
RECURSIVE IsSubseq(_, _)
IsSubseq(s, t) ==
    IF s = <<>> THEN TRUE
    ELSE IF t = <<>> THEN FALSE
    ELSE IF Head(s) = Head(t) THEN IsSubseq(Tail(s), Tail(t))
    ELSE IsSubseq(s, Tail(t))

CeilDiv(n, d) == (n + d - 1) \div d

\* C1: within one update cycle no track id is in both new_tracks and
\* archive_tracks, whatever the catalogue.
C1_BatchesDisjoint == Ids(new_tracks) \cap Ids(archive_tracks) = {}

\* C2: a track id that is in one of the two membership sets fetched at the
\* start of the cycle is in no chunk submitted in that cycle.
C2_MembersNeverSubmitted ==
    /\ Submitted \cap (current_track_ids \cup archive_track_ids) = {}
    /\ (Ids(new_tracks) \cup Ids(archive_tracks))
          \cap (current_track_ids \cup archive_track_ids) = {}

\* a second cycle has ended without any append, having met a track that the
\* first cycle added: it is of a tracked primary artist and of this week
C2_Witness ==
    /\ pc = "done"
    /\ cycles = 2
    /\ add_calls = <<>>
    /\ now_first = now_last
    /\ \E k \in DOMAIN artist_ids :
          \E b \in DOMAIN catalog[artist_ids[k]] :
             LET album == catalog[artist_ids[k]][b]
             IN  \E t \in DOMAIN album.tracks :
                    /\ album.tracks[t].artists[1] = artist_ids[k]
                    /\ album.tracks[t].id \in current_track_ids
                    /\ is_track_from_current_week(album.release_date, now_first)

C4_OneNowPerCycle == now_first = now_last

\* C8: every track id in either batch is listed, in an album listing of a
\* tracked artist, with that artist as its first credited artist.
C8_OnlyPrimaryArtistTracks ==
    \A id \in Ids(new_tracks) \cup Ids(archive_tracks) :
       \E k \in DOMAIN artist_ids :
          \E b \in DOMAIN catalog[artist_ids[k]] :
             LET album == catalog[artist_ids[k]][b]
             IN  \E t \in DOMAIN album.tracks :
                    /\ album.tracks[t].id = id
                    /\ album.tracks[t].artists[1] = artist_ids[k]

\* the scenario of the specification: A1 alone is tracked, both playlists
\* are empty, the album lists track 1 of A1 and track 2 of A2 featuring A1,
\* and the cycle ends with track 1 alone in the new batch
C8_Witness ==
    /\ pc = "done"
    /\ artist_ids = <<"A1">>
    /\ catalog["A1"] = <<AlbumMonday>>
    /\ current_track_ids = {}
    /\ archive_track_ids = {}
    /\ new_tracks = <<1>>
    /\ archive_tracks = <<>>

\* C10: each append call carries at most 50 ids; the calls to a playlist,
\* concatenated in the order issued, are its batch; the batch is in
\* encounter order; the count reported is the number of ids submitted.
C10_ChunksAreTheBatchInOrder ==
    /\ \A k \in DOMAIN add_calls :
          Len(add_calls[k].items) \in 1..BATCH
    /\ IsSubseq(new_tracks, Encounter(artist_ids))
    /\ IsSubseq(archive_tracks, Encounter(artist_ids))
    /\ new_tracks_added = Len(Concat(CallsTo("current")))
    /\ archive_tracks_added = Len(Concat(CallsTo("archive")))
    /\ pc = "done" => /\ Concat(CallsTo("current")) = new_tracks
                      /\ Concat(CallsTo("archive")) = archive_tracks

\* a cycle has ended that submitted a batch of more than 50 ids to the
\* current playlist, in more than one chunk
C10_Witness ==
    /\ pc = "done"
    /\ Len(CallsTo("current")) > 1
    /\ Len(new_tracks) > BATCH
    /\ Concat(CallsTo("current")) = new_tracks
    /\ new_tracks_added = Len(new_tracks)

\* a step that issues a playlist append
AppendStep ==
    \/ playlist' # playlist
    \/ archive_playlist' # archive_playlist
    \/ add_calls' # add_calls /\ add_calls' # <<>>

\* a step in which a remote call of the cycle fails
FailureStep == pc # "raised" /\ pc' = "raised"

\* the cycle is at a membership, album-listing or track-listing call
AtFetchCall == pc \in {"fetch_current", "fetch_archive", "artist", "album_tracks"}

\* C11: no playlist append is issued before the albums and tracks of every
\* tracked artist have been fetched and classified; nothing is issued after
\* a failed call; so a failed membership, album-listing or track-listing
\* call ends the cycle with no append issued and both playlists as they
\* were.
C11_NoAppendBeforeAllFetched ==
    [][ /\ AppendStep =>
            /\ pc \in {"add_new", "add_archive"}
            /\ ai > Len(artist_ids)
            /\ Len(add_calls') = Len(add_calls) + 1
        /\ pc = "raised" =>
            UNCHANGED <<pc, playlist, archive_playlist, add_calls>>
        /\ (FailureStep /\ AtFetchCall) =>
            /\ add_calls = <<>>
            /\ UNCHANGED <<playlist, archive_playlist, add_calls>>
      ]_vars

\* a listing call has failed inside the artist loop, after a track had been
\* put in the new batch, and nothing was appended
C11_Witness ==
    /\ pc = "raised"
    /\ ai <= Len(artist_ids)
    /\ new_tracks # <<>>
    /\ add_calls = <<>>
    /\ Ids(playlist) = current_track_ids
    /\ Ids(archive_playlist) = archive_track_ids

=============================================================================
